---- MODULE Spec2Model ----
(***************************************************************************)
(* Model of the IPFS retrieval and caching layer (filecoinService):        *)
(* findFastestGateway, getPreferredGateway, downloadFromFilecoin,          *)
(* checkCidStatus, trackCachedFile, cleanCache and removeCachedFile, over  *)
(* the AsyncStorage records they read and write.                           *)
(*                                                                         *)
(* Every exported function is one action: the whole async function,        *)
(* including every function it awaits.  The network (gateway answers,      *)
(* probe latencies) and the outcome of each AsyncStorage call are inputs   *)
(* of the action.  Time (Date.now) is read once per call and advances      *)
(* between calls.                                                          *)
(*                                                                         *)
(* uploadFile and deleteFile of fileService are actions over the same      *)
(* store and the Supabase tables (db).  SpecRace alone splits a download   *)
(* into the steps between its awaits, for two calls in flight (run).       *)
(***************************************************************************)
EXTENDS Integers, Sequences, FiniteSets, TLC

VARIABLES st, now, call, nOps, nCids, db, run

vars == <<st, now, call, nOps, nCids, db, run>>

(***************************************************************************)
(* Bounds of the model.                                                    *)
(***************************************************************************)
NumGateways == 3
NumCids == 2
NumBlobs == 3
NumUsers == 2
MaxTicks == 2
MaxOps == 3

(***************************************************************************)
(* Program constants.                                                      *)
(***************************************************************************)
\* IPFS_GATEWAYS, by position in the configured list
IPFS_GATEWAYS == 1..NumGateways

\* IPFS_GATEWAY_URL = IPFS_GATEWAYS[0], the static default
IPFS_GATEWAY_URL == 1

MAX_CACHE_SIZE == 50 * 1024 * 1024

MAX_CACHE_AGE == 7 * 24 * 60 * 60 * 1000

MAX_CACHE_ITEMS == 100

\* 60 * 60 * 1000, the freshness window of the speed test and of a status
OneHour == 60 * 60 * 1000

\* axios timeout of one speed-test request; a request that reaches it failed
ProbeTimeout == 5000

Cids == 1..NumCids

(***************************************************************************)
(* Blobs.  A blob is what a gateway serves for a cid; the program holds it *)
(* as the base64 string FileSystem.readAsStringAsync returns.  Blob b has  *)
(* BlobBytes(b) payload bytes; 0 stands for "no value" (getItem -> null).  *)
(***************************************************************************)
Blobs == 1..NumBlobs

BlobBytes(b) ==
  CASE b = 1 -> 0
    [] b = 2 -> 1
    [] b = 3 -> 30 * 1024 * 1024
    [] OTHER -> 45 * 1024 * 1024

\* length of the padded base64 encoding of n bytes
Base64Length(n) == 4 * ((n + 2) \div 3)

\* mutant: the size tracked is the length of the base64 string
FileSizeOfString(b) == Base64Length(BlobBytes(b))

\* base64Data.length * 0.75 (the length is a multiple of 4)
FileSize(b) == (Base64Length(BlobBytes(b)) * 3) \div 4

\* JavaScript truthiness of a getItem result: null and "" are falsy
Truthy(b) == b # 0 /\ Base64Length(BlobBytes(b)) > 0

(***************************************************************************)
(* AsyncStorage.  st.blob[cid]   FILE_CACHE_PREFIX + cid (0: no key)       *)
(*                st.status[cid] FILE_STATUS_PREFIX + cid                  *)
(*                st.index       CACHE_INDEX, entries in key order         *)
(*                st.size        CACHE_SIZE (no key reads as 0)            *)
(*                st.pref        PREFERRED_GATEWAY (0: no key)             *)
(*                st.speed       GATEWAY_SPEED_TEST                        *)
(***************************************************************************)
NoStatus == [present |-> FALSE, status |-> FALSE, timestamp |-> 0]

NoSpeed == [present |-> FALSE, timestamp |-> 0, fastestGateway |-> 0]

EmptyStore ==
  [blob |-> [c \in Cids |-> 0],
   status |-> [c \in Cids |-> NoStatus],
   index |-> <<>>,
   size |-> 0,
   pref |-> 0,
   speed |-> NoSpeed]

\* Outcome of the AsyncStorage calls of one invocation: f names the kind of
\* call that rejects during it ("none": every call resolves).
StorageFaults ==
  {"getBlob", "setBlob", "rmBlob", "getStatus", "setStatus", "rmStatus",
   "getIndex", "setIndex", "getSize", "setSize",
   "getPref", "setPref", "getSpeed", "setSpeed"}

Fails(f, op) == f = op

(***************************************************************************)
(* The cache index: a JSON object cid -> {size, timestamp}.                *)
(***************************************************************************)
IndexHas(index, cid) == \E i \in 1..Len(index) : index[i].cid = cid

IndexPos(index, cid) == CHOOSE i \in 1..Len(index) : index[i].cid = cid

IndexSize(index, cid) == index[IndexPos(index, cid)].size

\* cacheIndex[cid] = {size, timestamp}: an existing key keeps its place
IndexPut(index, cid, size, ts) ==
  LET e == [cid |-> cid, size |-> size, timestamp |-> ts]
  IN IF IndexHas(index, cid)
     THEN [index EXCEPT ![IndexPos(index, cid)] = e]
     ELSE Append(index, e)

\* delete cacheIndex[cid]
IndexDelete(index, cid) == SelectSeq(index, LAMBDA e : e.cid # cid)


(***************************************************************************)
(* removeCachedFile, cleanCache, trackCachedFile.                          *)
(***************************************************************************)
Max(a, b) == IF a >= b THEN a ELSE b

\* mutant: only the blob is removed
removeCachedFileBlobOnly(s, cid, f) ==
  IF Fails(f, "rmBlob") THEN s ELSE [s EXCEPT !.blob[cid] = 0]

\* An exception anywhere outside the inner try blocks ends the function in
\* its outer catch: what was written before the failing call stays written.
removeCachedFile(s, cid, f) ==
  LET cacheIndex == IF Fails(f, "getIndex") THEN <<>> ELSE s.index
      tracked == IndexHas(cacheIndex, cid)
      fileSize == IF tracked THEN IndexSize(cacheIndex, cid) ELSE 0
      s1 == [s EXCEPT !.blob[cid] = 0]
      s2 == [s1 EXCEPT !.status[cid] = NoStatus]
      s3 == IF tracked
            THEN [s2 EXCEPT !.index = IndexDelete(cacheIndex, cid)]
            ELSE s2
      s4 == IF fileSize > 0 /\ ~Fails(f, "getSize") /\ ~Fails(f, "setSize")
            THEN [s3 EXCEPT !.size = Max(0, s3.size - fileSize)]
            ELSE s3
  IN IF Fails(f, "rmBlob") THEN s
     ELSE IF Fails(f, "rmStatus") THEN s1
     ELSE IF tracked /\ Fails(f, "setIndex") THEN s2
     ELSE s4

\* mutant: the entries are taken in the order of the index
SortByTimestampSkipped(entries) == entries

\* removeCachedFile logged an error (console.warn, console.error): one of the
\* AsyncStorage calls it made rejected.  The index is always read, the blob
\* and status keys are always removed; the index is written for a tracked
\* cid, and the running total is read and written for a tracked cid of
\* positive size.
RemovalErrored(s, cid, f) ==
  LET tracked == ~Fails(f, "getIndex") /\ IndexHas(s.index, cid)
  IN \/ f \in {"getIndex", "rmBlob", "rmStatus"}
     \/ tracked /\ f = "setIndex"
     \/ tracked /\ IndexSize(s.index, cid) > 0 /\ f \in {"getSize", "setSize"}

\* cacheEntries.sort((a, b) => a.timestamp - b.timestamp), a stable sort:
\* an entry comes before another when it is older, or as old and earlier in
\* the index.
SortByTimestamp(entries) ==
  LET Before(i, j) ==
        \/ entries[i].timestamp < entries[j].timestamp
        \/ entries[i].timestamp = entries[j].timestamp /\ i < j
      Rank(i) == Cardinality({j \in 1..Len(entries) : Before(j, i)}) + 1
  IN [k \in 1..Len(entries) |->
        entries[CHOOSE i \in 1..Len(entries) : Rank(i) = k]]

\* for (i = 0; i < excessItems; i++) removeCachedFile(cacheEntries[i].cid)
RECURSIVE RemoveOldest(_, _, _, _, _)
RemoveOldest(s, cacheEntries, i, excessItems, f) ==
  IF i > excessItems THEN s
  ELSE RemoveOldest(removeCachedFile(s, cacheEntries[i].cid, f),
                    cacheEntries, i + 1, excessItems, f)

\* the size loop: remove the oldest until at most MAX_CACHE_SIZE * 0.8 is left
RECURSIVE EvictForSize(_, _, _, _, _, _)
EvictForSize(s, cacheEntries, i, totalCacheSize, removedSize, f) ==
  IF i > Len(cacheEntries) THEN s
  ELSE LET s1 == removeCachedFile(s, cacheEntries[i].cid, f)
           removed == removedSize + cacheEntries[i].size
       IN IF (totalCacheSize - removed) * 5 <= MAX_CACHE_SIZE * 4
          THEN s1
          ELSE EvictForSize(s1, cacheEntries, i + 1, totalCacheSize, removed, f)

\* the age loop: stops at the first entry that is not too old
RECURSIVE EvictForAge(_, _, _, _, _)
EvictForAge(s, cacheEntries, i, t, f) ==
  IF i > Len(cacheEntries) THEN s
  ELSE IF cacheEntries[i].timestamp < t - MAX_CACHE_AGE
       THEN EvictForAge(removeCachedFile(s, cacheEntries[i].cid, f),
                        cacheEntries, i + 1, t, f)
       ELSE s

\* With no index key the function returns at once; with an empty index
\* object every loop below is empty.  Both leave the store as it is.
cleanCache(s, t, f) ==
  IF Fails(f, "getIndex") \/ s.index = <<>> THEN s
  ELSE LET cacheEntries == SortByTimestamp(s.index)
       IN IF Len(cacheEntries) > MAX_CACHE_ITEMS
          THEN RemoveOldest(s, cacheEntries, 1,
                            Len(cacheEntries) - MAX_CACHE_ITEMS, f)
          ELSE LET totalCacheSize == IF Fails(f, "getSize") THEN 0 ELSE s.size
                   s1 == IF totalCacheSize > MAX_CACHE_SIZE
                         THEN EvictForSize(s, cacheEntries, 1, totalCacheSize, 0, f)
                         ELSE s
               IN EvictForAge(s1, cacheEntries, 1, t, f)

\* The sizes written are integers (FileSize), so toString and parseInt give
\* the number back.
trackCachedFile(s, t, cid, size, f) ==
  LET cacheIndex == IF Fails(f, "getIndex") THEN <<>> ELSE s.index
      s1 == [s EXCEPT !.index = IndexPut(cacheIndex, cid, size, t)]
      totalCacheSize == (IF Fails(f, "getSize") THEN 0 ELSE s1.size) + size
      s2 == [s1 EXCEPT !.size = totalCacheSize]
  IN IF Fails(f, "setIndex") THEN s
     ELSE IF Fails(f, "setSize") THEN s1
     ELSE IF totalCacheSize > MAX_CACHE_SIZE THEN cleanCache(s2, t, f)
     ELSE s2


(***************************************************************************)
(* The speed test of findFastestGateway.  lat[g] is the time after which   *)
(* the request to g settles: below ProbeTimeout it is a 200 or 206 answer, *)
(* at ProbeTimeout the request failed.  order is the order in which the    *)
(* requests settle, the order of the pushes to testResults.                *)
(***************************************************************************)
Latencies == {50, 300}

LatencyMaps == [IPFS_GATEWAYS -> Latencies \cup {ProbeTimeout}]

CompletionOrders(lat) ==
  {o \in [1..NumGateways -> IPFS_GATEWAYS] :
     /\ \A i, j \in 1..NumGateways : i # j => o[i] # o[j]
     /\ \A i, j \in 1..NumGateways : i < j => lat[o[i]] <= lat[o[j]]}

\* the input of a call that sends no speed-test request
NoProbe ==
  [lat |-> [g \in IPFS_GATEWAYS |-> ProbeTimeout],
   order |-> [i \in 1..NumGateways |-> i]]

ProbeInputs ==
  {[lat |-> l, order |-> o] : l \in LatencyMaps, o \in [1..NumGateways -> IPFS_GATEWAYS]}

ValidProbe(probe) == probe.order \in CompletionOrders(probe.lat)

\* testResults.sort((a, b) => a.responseTime - b.responseTime): stable
RECURSIVE InsertByResponseTime(_, _)
InsertByResponseTime(sorted, e) ==
  IF sorted = <<>> THEN <<e>>
  ELSE IF sorted[Len(sorted)].responseTime <= e.responseTime THEN Append(sorted, e)
  ELSE Append(InsertByResponseTime(SubSeq(sorted, 1, Len(sorted) - 1), e),
              sorted[Len(sorted)])

RECURSIVE SortByResponseTime(_)
SortByResponseTime(results) ==
  IF results = <<>> THEN <<>>
  ELSE InsertByResponseTime(
         SortByResponseTime(SubSeq(results, 1, Len(results) - 1)),
         results[Len(results)])

\* mutant: the answers are collected in the order of the gateway list
TestResultsInListOrder(probe) ==
  LET answered == SelectSeq([g \in 1..NumGateways |-> g],
                            LAMBDA g : probe.lat[g] < ProbeTimeout)
  IN [i \in 1..Len(answered) |->
        [gateway |-> answered[i], responseTime |-> probe.lat[answered[i]]]]

\* mutant: a gateway that did not answer is ranked with the others
TestResultsOfAll(probe) ==
  [i \in 1..NumGateways |->
     [gateway |-> probe.order[i], responseTime |-> probe.lat[probe.order[i]]]]

\* testResults after Promise.all: one entry per gateway that answered 200 or
\* 206 in time.  A timeout, a connection error and an error status make
\* axios.get throw, and any other 2xx answer is not pushed: none leaves an
\* entry, and lat = ProbeTimeout stands for all of them.
TestResults(probe) ==
  LET answered == SelectSeq(probe.order, LAMBDA g : probe.lat[g] < ProbeTimeout)
  IN [i \in 1..Len(answered) |->
        [gateway |-> answered[i], responseTime |-> probe.lat[answered[i]]]]

(***************************************************************************)
(* Network events of a call, in order.                                     *)
(***************************************************************************)
\* data: the blob a download delivered (0: none)
Event(kind, gw, ok) == [kind |-> kind, gw |-> gw, ok |-> ok, data |-> 0]

Delivered(gw, data) == [kind |-> "download", gw |-> gw, ok |-> data # 0, data |-> data]

\* mutant: a result exactly one hour old still counts as recent
RecentInclusive(timestamp, t) == timestamp >= t - OneHour

\* timestamp > oneHourAgo
Recent(timestamp, t) == timestamp > t - OneHour

\* mutant: with no gateway responding the speed test gives no gateway
NoneRespondedRaises(s, sent) ==
  [st |-> s, ret |-> 0, net |-> sent, ranked |-> <<>>]

\* if (testResults.length === 0) return IPFS_GATEWAY_URL
NoneResponded(s, sent) ==
  [st |-> s, ret |-> IPFS_GATEWAY_URL, net |-> sent, ranked |-> <<>>]

\* ranked: testResults as sorted by the call (<<>> when it ran no speed test)
findFastestGateway(s, t, probe, f) ==
  IF Fails(f, "getSpeed")
  THEN [st |-> s, ret |-> IPFS_GATEWAY_URL, net |-> <<>>, ranked |-> <<>>]
  ELSE IF /\ s.speed.present
          /\ Recent(s.speed.timestamp, t)
          /\ s.speed.fastestGateway # 0
  THEN [st |-> s, ret |-> s.speed.fastestGateway, net |-> <<>>, ranked |-> <<>>]
  ELSE LET testResults == SortByResponseTime(TestResults(probe))
           sent == <<Event("probe", 0, testResults # <<>>)>>
       IN IF testResults = <<>>
          THEN NoneResponded(s, sent)
          ELSE IF Fails(f, "setSpeed")
          THEN [st |-> s, ret |-> IPFS_GATEWAY_URL, net |-> sent,
                ranked |-> testResults]
          ELSE [st |-> [s EXCEPT !.speed =
                          [present |-> TRUE, timestamp |-> t,
                           fastestGateway |-> testResults[1].gateway]],
                ret |-> testResults[1].gateway,
                net |-> sent, ranked |-> testResults]

getPreferredGateway(s, t, forceRefresh, probe, f) ==
  IF forceRefresh THEN findFastestGateway(s, t, probe, f)
  ELSE IF Fails(f, "getPref")
  THEN [st |-> s, ret |-> IPFS_GATEWAY_URL, net |-> <<>>]
  ELSE IF s.pref # 0
  THEN [st |-> s, ret |-> s.pref, net |-> <<>>]
  ELSE LET r == findFastestGateway(s, t, probe, f)
       IN IF Fails(f, "setPref")
          THEN [st |-> r.st, ret |-> IPFS_GATEWAY_URL, net |-> r.net]
          ELSE [st |-> [r.st EXCEPT !.pref = r.ret], ret |-> r.ret, net |-> r.net]

(***************************************************************************)
(* The requests of a call.  The requests a call sends for its cid (the     *)
(* downloads of downloadFromFilecoin; the HEAD and pin/ls requests of      *)
(* checkCidStatus) are numbered in the order they are sent.  The network   *)
(* is an input of the call: the first `fails` requests fail (timeout,      *)
(* connection error, error status), the later ones succeed.  A call stops  *)
(* sending at its first success, so this covers every pattern of answers   *)
(* a call can see, a gateway that fails once and answers later included.   *)
(***************************************************************************)
Answers(n, fails) == n > fails

(***************************************************************************)
(* downloadFromFilecoin.  content is the blob a successful download        *)
(* (downloadAsync, then readAsStringAsync) delivers; a failed one throws.  *)
(* Request 1 goes to the preferred gateway, request i + 1 to gateway i of  *)
(* the fallback loop.                                                      *)
(***************************************************************************)
Download(n, fails, content) == IF Answers(n, fails) THEN content ELSE 0

\* the cache lookup at the head of the function
CachedData(s, cid, skipCache, f) ==
  IF skipCache \/ Fails(f, "getBlob") THEN 0 ELSE s.blob[cid]

\* try { setItem(cacheKey, base64Data); trackCachedFile(cid, fileSize) }
CacheDownload(s, t, cid, base64Data, f) ==
  IF Fails(f, "setBlob") THEN s
  ELSE trackCachedFile([s EXCEPT !.blob[cid] = base64Data], t, cid,
                       FileSize(base64Data), f)

\* mutant: the fallback loop does not store the gateway that worked
PromoteSkipped(s, gateway, f) == s

\* mutant: the pointer is set to a value outside the gateway list
PromoteUnlisted(s, gateway, f) == [s EXCEPT !.pref = NumGateways + 1]

\* mutant: the fallback loop stores the default gateway
PromoteDefault(s, gateway, f) ==
  IF Fails(f, "setBlob") \/ Fails(f, "setPref") THEN s
  ELSE [s EXCEPT !.pref = IPFS_GATEWAY_URL]

\* setItem(PREFERRED_GATEWAY, gateway), last statement of the same try block
Promote(s, gateway, f) ==
  IF Fails(f, "setBlob") \/ Fails(f, "setPref") THEN s
  ELSE [s EXCEPT !.pref = gateway]

\* mutant: the loop stops one gateway early
FallbackStopsEarly == NumGateways - 1

\* mutant: the loop makes one more round than the list has gateways
FallbackGoesRound == NumGateways + 1

\* for (let i = 0; i < IPFS_GATEWAYS.length; i++)
FallbackLast == NumGateways

\* mutant: a failed download drops the cached copy of the cid
DownloadFailedDropsCache(s, cid, f) == removeCachedFile(s, cid, f)

\* catch (error) of one iteration: lastError, a progress report, continue
DownloadFailed(s, cid, f) == s

\* mutant: the loop walks the list from its end
FallbackGatewayReversed(i) == NumGateways + 1 - i

\* const gateway = IPFS_GATEWAYS[i], for the i-th iteration of the loop
FallbackGateway(i) == i

\* Every iteration awaits its download before the next one starts: the
\* attempts of a call are the download events of net, one after the other.
RECURSIVE TryGateways(_, _, _, _, _, _, _, _)
TryGateways(s, t, cid, i, fails, content, f, net) ==
  IF i > FallbackLast
  THEN [st |-> s, ret |-> 0, threw |-> TRUE, via |-> "none", gw |-> 0, net |-> net]
  ELSE LET gateway == FallbackGateway(i)
           base64Data == Download(i + 1, fails, content)
           net1 == Append(net, Delivered(gateway, base64Data))
       IN IF base64Data # 0
          THEN [st |-> Promote(CacheDownload(s, t, cid, base64Data, f), gateway, f),
                ret |-> base64Data, threw |-> FALSE, via |-> "fallback",
                gw |-> gateway, net |-> net1]
          ELSE TryGateways(DownloadFailed(s, cid, f), t, cid, i + 1, fails,
                           content, f, net1)

downloadFromFilecoin(s, t, cid, skipCache, fails, content, probe, f) ==
  LET cachedData == CachedData(s, cid, skipCache, f)
  IN IF Truthy(cachedData)
     THEN [st |-> s, ret |-> cachedData, threw |-> FALSE, via |-> "cache",
           gw |-> 0, net |-> <<>>]
     ELSE LET p == getPreferredGateway(s, t, FALSE, probe, f)
              base64Data == Download(1, fails, content)
              net1 == Append(p.net, Delivered(p.ret, base64Data))
          IN IF base64Data # 0
             THEN [st |-> CacheDownload(p.st, t, cid, base64Data, f),
                   ret |-> base64Data, threw |-> FALSE, via |-> "preferred",
                   gw |-> p.ret, net |-> net1]
             ELSE TryGateways(p.st, t, cid, 1, fails, content, f, net1)

(***************************************************************************)
(* The calls of onProgress that downloadFromFilecoin makes along the path  *)
(* r it took.  written lists the shares of the file (in percent) that the  *)
(* download callback of an attempt was called with; late tells whether a   *)
(* failed attempt failed after downloadAsync had resolved (an empty        *)
(* result, an unreadable file) rather than in downloadAsync itself.        *)
(***************************************************************************)
Min(a, b) == IF a <= b THEN a ELSE b

\* Math.round of the quotient a / b of two naturals
Round(a, b) == (2 * a + b) \div (2 * b)

\* Math.min(Math.round(10 + progress * 80), 90)
PreferredWindow(share) == Min(Round(10 * 100 + share * 80, 100), 90)

\* Math.min(Math.round(20 + progress * 70), 90)
FallbackWindow(share) == Min(Round(20 * 100 + share * 70, 100), 90)

\* mutant: a failed gateway is reported as the end of the download
FailedGatewayProgressFull(gw) == 100

\* onProgress(20 + (i + 1) * 3) after gateway i (counted from 0) failed
FailedGatewayProgress(gw) == 20 + gw * 3

\* the reports of the n-th download of the call; the first one goes to the
\* preferred gateway, the others belong to the fallback loop
AttemptProgress(event, n, written, late) ==
  LET reports == [i \in 1..Len(written) |->
                    IF n = 1 THEN PreferredWindow(written[i])
                    ELSE FallbackWindow(written[i])]
  IN IF event.ok THEN reports \o <<90, 100>>
     ELSE reports \o (IF late THEN <<90>> ELSE <<>>)
                  \o (IF n = 1 THEN <<>> ELSE <<FailedGatewayProgress(event.gw)>>)

RECURSIVE AttemptsProgress(_, _, _, _)
AttemptsProgress(downloads, n, written, late) ==
  IF n > Len(downloads) THEN <<>>
  ELSE AttemptProgress(downloads[n], n, written, late)
         \o AttemptsProgress(downloads, n + 1, written, late)

onProgress(r, written, late) ==
  IF r.via = "cache" THEN <<5, 100>>
  ELSE <<5, 10>> \o AttemptsProgress(
                      SelectSeq(r.net, LAMBDA e : e.kind = "download"),
                      1, written, late)

(***************************************************************************)
(* checkCidStatus.  Request 1 is the HEAD to the preferred gateway,        *)
(* request 2 the pin/ls POST, request i + 2 the HEAD to gateway i of the   *)
(* loop.  A HEAD succeeds when it answers 200; any other answer makes      *)
(* axios throw.                                                            *)
(***************************************************************************)
\* mutant: the status is stored without the time of the check
StatusEntryUndated(status, t) ==
  [present |-> TRUE, status |-> status, timestamp |-> 0]

\* JSON.stringify({ status, timestamp: Date.now() })
StatusEntry(status, t) == [present |-> TRUE, status |-> status, timestamp |-> t]

\* mutant: the cached status is never consulted
CachedStatusIgnored(s, cid, skipCache, f) == NoStatus

\* the cached status read at the head of the function
CachedStatus(s, cid, skipCache, f) ==
  IF skipCache \/ Fails(f, "getStatus") THEN NoStatus ELSE s.status[cid]

\* mutant: a negative answer is not cached
NegativeStatusNotCached(s, t, cid, f) == s

\* the status written when every gateway of the loop has been tried in vain;
\* a rejected write ends in the outer catch
NegativeStatus(s, t, cid, f) ==
  IF Fails(f, "setStatus") THEN s
  ELSE [s EXCEPT !.status[cid] = StatusEntry(FALSE, t)]

\* for (const gateway of IPFS_GATEWAYS): a rejected status write is caught
\* like a failed request, and the loop goes on
RECURSIVE CheckGateways(_, _, _, _, _, _, _)
CheckGateways(s, t, cid, i, fails, f, net) ==
  IF i > NumGateways
  THEN [st |-> NegativeStatus(s, t, cid, f), avail |-> FALSE, via |-> "gateways",
        net |-> net]
  ELSE LET ok == Answers(i + 2, fails)
           net1 == Append(net, Event("head", i, ok))
       IN IF ok /\ ~Fails(f, "setStatus")
          THEN [st |-> [s EXCEPT !.status[cid] = StatusEntry(TRUE, t)],
                avail |-> TRUE, via |-> "gateways", net |-> net1]
          ELSE CheckGateways(s, t, cid, i + 1, fails, f, net1)

checkCidStatus(s, t, cid, skipCache, fails, probe, f) ==
  LET cachedStatus == CachedStatus(s, cid, skipCache, f)
      cachedData == IF Fails(f, "getBlob") THEN 0 ELSE s.blob[cid]
      p == getPreferredGateway(s, t, FALSE, probe, f)
      net1 == Append(p.net, Event("head", p.ret, Answers(1, fails)))
      net2 == Append(net1, Event("pinls", 0, Answers(2, fails)))
      positive == [p.st EXCEPT !.status[cid] = StatusEntry(TRUE, t)]
  IN IF cachedStatus.present /\ Recent(cachedStatus.timestamp, t)
     THEN [st |-> s, avail |-> cachedStatus.status, via |-> "status", net |-> <<>>]
     ELSE IF Truthy(cachedData) /\ ~Fails(f, "setStatus")
     THEN [st |-> [s EXCEPT !.status[cid] = StatusEntry(TRUE, t)],
           avail |-> TRUE, via |-> "cache", net |-> <<>>]
     ELSE IF Answers(1, fails) /\ ~Fails(f, "setStatus")
     THEN [st |-> positive, avail |-> TRUE, via |-> "preferred", net |-> net1]
     ELSE IF Answers(2, fails) /\ ~Fails(f, "setStatus")
     THEN [st |-> positive, avail |-> TRUE, via |-> "pin", net |-> net2]
     ELSE CheckGateways(p.st, t, cid, 1, fails, f, net2)

(***************************************************************************)
(* uploadToFilecoin.  configured: both Infura credentials are set.         *)
(* primary and secondary are the answers of the two add requests: ok is a  *)
(* 2xx answer (anything else makes axios throw), and Hash, hash and cid    *)
(* are what response.data holds under those keys (0: nothing, or an empty  *)
(* value).  fs names the expo-file-system call that rejects during the     *)
(* call ("none": every one resolves).  staged tells whether the temporary  *)
(* file of the call is still there when the call ends.                     *)
(***************************************************************************)
FsFaults == {"writeAsStringAsync", "getInfoAsync", "deleteAsync"}

AddFailed == [ok |-> FALSE, Hash |-> 0, hash |-> 0, cid |-> 0]

AddAnswers ==
  {AddFailed} \cup
  {[ok |-> TRUE, Hash |-> a, hash |-> b, cid |-> c] : a, b, c \in 0..NumCids}

\* mutant: an answer without an identifier is taken to name the last cid
IdentifierAssumed(data) == IF data.Hash # 0 THEN data.Hash ELSE NumCids

\* data.Hash || data.hash || data.cid
Identifier(data) ==
  IF data.Hash # 0 THEN data.Hash
  ELSE IF data.hash # 0 THEN data.hash
  ELSE data.cid

\* mutant: the upload marks the default gateway as preferred
UploadedPromotes(s, cid) == [s EXCEPT !.pref = IPFS_GATEWAY_URL]

\* from the answer to the return: a progress report, the removal of the
\* temporary file, no AsyncStorage call
Uploaded(s, cid) == s

\* if (INFURA_PROJECT_ID && INFURA_PROJECT_SECRET), in the fallback
InfuraAttempted(configured) == configured

\* The try block of the Infura attempt: its cid, or 0 when the request
\* failed, the answer held no identifier or the temporary file could not be
\* removed; each of these ends in catch (infuraError).
InfuraUpload(secondary, fs) ==
  IF secondary.ok /\ Identifier(secondary) # 0 /\ fs # "deleteAsync"
  THEN Identifier(secondary)
  ELSE 0

\* A rejected writeAsStringAsync is taken to leave no file behind.
uploadToFilecoin(s, configured, primary, secondary, fs) ==
  IF fs = "writeAsStringAsync"
  THEN [st |-> s, ret |-> 0, threw |-> TRUE, net |-> <<>>, staged |-> FALSE]
  ELSE IF fs = "getInfoAsync"
  THEN [st |-> s, ret |-> 0, threw |-> TRUE, net |-> <<>>, staged |-> TRUE]
  ELSE LET sent1 == <<Event("add", 0, primary.ok)>>
           cid == IF primary.ok THEN Identifier(primary) ELSE 0
       IN IF cid # 0 /\ fs # "deleteAsync"
          THEN [st |-> Uploaded(s, cid), ret |-> cid, threw |-> FALSE,
                net |-> sent1, staged |-> FALSE]
          ELSE IF InfuraAttempted(configured)
          THEN LET sent2 == Append(sent1, Event("infura", 0, secondary.ok))
                   infuraCid == InfuraUpload(secondary, fs)
               IN IF infuraCid # 0
                  THEN [st |-> Uploaded(s, infuraCid), ret |-> infuraCid,
                        threw |-> FALSE, net |-> sent2, staged |-> FALSE]
                  ELSE [st |-> s, ret |-> 0, threw |-> TRUE, net |-> sent2,
                        staged |-> fs = "deleteAsync"]
          ELSE [st |-> s, ret |-> 0, threw |-> TRUE, net |-> sent1,
                staged |-> fs = "deleteAsync"]

(***************************************************************************)
(* deleteFromFilecoin.  unpinned: the pin/rm request answered 2xx.         *)
(***************************************************************************)
\* mutant: a failed unpin is reported as a failed delete
CouldNotUnpinReported == FALSE

\* return true, in catch (pinError)
CouldNotUnpin == TRUE

deleteFromFilecoin(s, cid, unpinned, f) ==
  [st |-> removeCachedFile(s, cid, f),
   ret |-> IF unpinned THEN TRUE ELSE CouldNotUnpin,
   threw |-> FALSE,
   net |-> <<Event("unpin", 0, unpinned)>>]

(***************************************************************************)
(* fileService: uploadFile and deleteFile, over the files table, the audit *)
(* log and the storage quota kept by Supabase.  A query that comes back    *)
(* with an error is an input of the call (insertOk, auditOk, ...).  Every  *)
(* file has file_size 1.                                                   *)
(***************************************************************************)
Users == 1..NumUsers

NoRows ==
  [files |-> {}, audit |-> {}, quota |-> [u \in Users |-> 0], nextId |-> 1]

\* mutant: every row names the first cid
StoredCidOfFirst(cid) == 1

\* ipfs_cid: cid, in the row uploadFile inserts
StoredCid(cid) == cid

FileRow(id, userId, cid) ==
  [id |-> id, user_id |-> userId, ipfs_cid |-> StoredCid(cid), file_size |-> 1]

AuditRow(userId, fileId, action) ==
  [user_id |-> userId, file_id |-> fileId, action |-> action]

\* supabase.rpc('update_user_storage', ...): its outcome is not looked at
UpdateUserStorage(d, userId, bytes, rpcOk) ==
  IF rpcOk THEN [d EXCEPT !.quota[userId] = @ + bytes] ELSE d

\* the insert into AUDIT_LOGS: its outcome is not looked at
LogAction(d, row, auditOk) ==
  IF auditOk THEN [d EXCEPT !.audit = @ \cup {row}] ELSE d

\* encrypted: generateEncryptionKey and encryptData resolved.  up: what
\* uploadToFilecoin made of the encrypted data.  row: the id of the row
\* returned (0: none).
uploadFile(s, d, userId, encrypted, up, rpcOk, insertOk, auditOk) ==
  IF ~encrypted
  THEN [st |-> s, db |-> d, threw |-> TRUE, cid |-> 0, row |-> 0, net |-> <<>>]
  ELSE IF up.threw
  THEN [st |-> up.st, db |-> d, threw |-> TRUE, cid |-> 0, row |-> 0,
        net |-> up.net]
  ELSE LET cid == up.ret
           d1 == UpdateUserStorage(d, userId, 1, rpcOk)
           data == FileRow(d1.nextId, userId, cid)
           d2 == [d1 EXCEPT !.files = @ \cup {data}, !.nextId = @ + 1]
       IN IF ~insertOk
          THEN [st |-> up.st, db |-> d1, threw |-> TRUE, cid |-> cid,
                row |-> 0, net |-> up.net]
          ELSE [st |-> up.st,
                db |-> LogAction(d2, AuditRow(userId, data.id, "upload"), auditOk),
                threw |-> FALSE, cid |-> cid, row |-> data.id, net |-> up.net]

\* mutant: any signed-in user may delete
AuthorizedAnyUser(user, fileData) == user # 0

\* the negation of (!user || user.id !== fileData.user_id); user 0 stands
\* for no signed-in user
Authorized(user, fileData) == user # 0 /\ user = fileData.user_id

\* fetched: the select of the row came back without error (single() gives an
\* error when no row has the id).  user: what supabase.auth.getUser() gave.
deleteFile(s, d, fileId, fetched, user, unpinned, f, rpcOk, auditOk, deleteOk) ==
  LET found == {r \in d.files : r.id = fileId}
      refused == [st |-> s, db |-> d, threw |-> TRUE, cid |-> 0, net |-> <<>>]
  IN IF ~fetched \/ found = {} THEN refused
     ELSE LET fileData == CHOOSE r \in found : TRUE
          IN IF ~Authorized(user, fileData) THEN refused
             ELSE LET del == deleteFromFilecoin(s, fileData.ipfs_cid, unpinned, f)
                      d1 == UpdateUserStorage(d, fileData.user_id,
                                              0 - fileData.file_size, rpcOk)
                      d2 == LogAction(d1, AuditRow(user, fileId, "delete"), auditOk)
                  IN IF ~deleteOk
                     THEN [st |-> del.st, db |-> d2, threw |-> TRUE,
                           cid |-> fileData.ipfs_cid, net |-> del.net]
                     ELSE [st |-> del.st,
                           db |-> [d2 EXCEPT !.files = @ \ found],
                           threw |-> FALSE, cid |-> fileData.ipfs_cid,
                           net |-> del.net]

(***************************************************************************)
(* Two downloadFromFilecoin calls in flight at once.  run[p] is the place  *)
(* of call p between two of its awaits, and what it holds in its locals.   *)
(***************************************************************************)
Fetchers == 1..2

\* gateway: the gateway of the fallback loop that delivered (0: the
\* preferred gateway did)
Idle ==
  [p \in Fetchers |->
     [pc |-> "idle", cid |-> 0, gateway |-> 0, base64Data |-> 0,
      cacheIndex |-> <<>>, totalCacheSize |-> 0]]

(***************************************************************************)
(* The state machine.  call describes the last call that returned.         *)
(***************************************************************************)
HalfHour == OneHour \div 2

StartTime == MAX_CACHE_AGE + OneHour

NoCall ==
  [op |-> "none", cid |-> 0, flag |-> FALSE, ret |-> 0,
   avail |-> FALSE, threw |-> FALSE, via |-> "none", gw |-> 0, net |-> <<>>,
   at |-> 0, probe |-> NoProbe, ranked |-> <<>>,
   configured |-> FALSE, primary |-> AddFailed, secondary |-> AddFailed,
   fs |-> "none", staged |-> FALSE, progress |-> <<>>, evicted |-> {},
   errored |-> FALSE, user |-> 0, file |-> 0]

Init ==
  /\ st = EmptyStore
  /\ now = StartTime
  /\ call = NoCall
  /\ nOps = 0
  /\ nCids = 0
  /\ db = NoRows
  /\ run = Idle

Tick ==
  /\ now < StartTime + MaxTicks * HalfHour
  /\ now' = now + HalfHour
  /\ UNCHANGED <<st, call, nOps, nCids, db, run>>

\* Cids are interchangeable keys: the calls name them in order of first use,
\* and nCids counts the ones named so far.
NextCids == {c \in Cids : c <= nCids + 1}

HasProbe(net) == \E i \in 1..Len(net) : net[i].kind = "probe"

ValidProbes == {pr \in ProbeInputs : ValidProbe(pr)}

\* the speed test in which gateway g alone answers
OnlyAnswers(g) ==
  LET lat == [h \in IPFS_GATEWAYS |-> IF h = g THEN 50 ELSE ProbeTimeout]
  IN [lat |-> lat, order |-> CHOOSE o \in CompletionOrders(lat) : TRUE]

\* One speed test for each outcome findFastestGateway can draw from it: no
\* gateway answered, or gateway g is ranked first.  The calls that go
\* through getPreferredGateway use nothing else of the speed test.
OutcomeProbes == {NoProbe} \cup {OnlyAnswers(g) : g \in IPFS_GATEWAYS}

\* the speed tests a call can meet, when it runs one
ProbeChoices(probes) == IF probes THEN OutcomeProbes ELSE {NoProbe}

\* The cache after MAX_CACHE_ITEMS files have been downloaded at StartTime,
\* each of one byte (blob 2) and each a cache miss served by the preferred
\* gateway, the first of them after a speed test won by the default
\* gateway.  The cids above NumCids are those files; later calls do not
\* name them.
EarlierCids == (NumCids + 1)..(NumCids + MAX_CACHE_ITEMS)

FullCache ==
  [blob |-> [c \in Cids \cup EarlierCids |-> IF c \in EarlierCids THEN 2 ELSE 0],
   status |-> [c \in Cids \cup EarlierCids |-> NoStatus],
   index |-> [i \in 1..MAX_CACHE_ITEMS |->
                [cid |-> NumCids + i, size |-> FileSize(2),
                 timestamp |-> StartTime]],
   size |-> MAX_CACHE_ITEMS * FileSize(2),
   pref |-> IPFS_GATEWAY_URL,
   speed |-> [present |-> TRUE, timestamp |-> StartTime,
              fastestGateway |-> IPFS_GATEWAY_URL]]

InitFull ==
  /\ st = FullCache
  /\ now = StartTime
  /\ call = NoCall
  /\ nOps = 0
  /\ nCids = 0
  /\ db = NoRows
  /\ run = Idle

\* The same cache one hour after the files have passed MAX_CACHE_AGE: they
\* were downloaded at time 0, and it is StartTime now.
StaleCache ==
  [FullCache EXCEPT
     !.index = [i \in 1..MAX_CACHE_ITEMS |->
                  [cid |-> NumCids + i, size |-> FileSize(2), timestamp |-> 0]],
     !.speed = [present |-> TRUE, timestamp |-> 0,
                fastestGateway |-> IPFS_GATEWAY_URL]]

InitStale ==
  /\ st = StaleCache
  /\ now = StartTime
  /\ call = NoCall
  /\ nOps = 0
  /\ nCids = 0
  /\ db = NoRows
  /\ run = Idle

\* What the cleanup of a download removed: the entries the index held once
\* trackCachedFile had put the downloaded file in, and does not hold when
\* the call returns.
Evicted(s, t, cid, r) ==
  IF r.via \in {"preferred", "fallback"}
  THEN LET start == IndexPut(s.index, cid, FileSize(r.ret), t)
       IN {start[i] : i \in 1..Len(start)}
            \ {r.st.index[i] : i \in 1..Len(r.st.index)}
  ELSE {}

\* downloadFromFilecoin of a cid for which the gateways serve one of served
DownloadOf(served, faults) ==
  /\ nOps < MaxOps
  /\ \E cid \in NextCids, skipCache \in BOOLEAN, f \in faults :
       \E dry \in {downloadFromFilecoin(st, now, cid, skipCache, 0, 1, NoProbe, f)} :
          \E fails \in (IF dry.via = "cache" THEN {0} ELSE 0..(NumGateways + 1)) :
          \E content \in (IF dry.via = "cache" \/ fails > NumGateways
                           THEN {1} ELSE served) :
          \E probe \in ProbeChoices(HasProbe(dry.net)) :
          \E r \in {downloadFromFilecoin(st, now, cid, skipCache, fails, content,
                                         probe, f)} :
               /\ st' = r.st
               /\ nCids' = Max(nCids, cid)
               /\ call' = [NoCall EXCEPT !.op = "download", !.cid = cid,
                             !.flag = skipCache, !.ret = r.ret,
                             !.threw = r.threw, !.via = r.via, !.gw = r.gw,
                             !.net = r.net, !.at = now,
                             !.evicted = Evicted(st, now, cid, r)]
  /\ nOps' = nOps + 1
  /\ UNCHANGED <<now, db, run>>

DownloadFromFilecoin(faults) == DownloadOf(Blobs, faults)

\* what the download callback of an attempt can report
WrittenChoices == {<<>>, <<0>>, <<50>>, <<0, 50, 100>>}

\* downloadFromFilecoin called with an onProgress function; call.progress
\* lists the values it was called with
DownloadWithProgress(faults) ==
  /\ nOps < MaxOps
  /\ \E cid \in NextCids, skipCache \in BOOLEAN, f \in faults :
       \E dry \in {downloadFromFilecoin(st, now, cid, skipCache, 0, 1, NoProbe, f)} :
          \E fails \in (IF dry.via = "cache" THEN {0} ELSE 0..(NumGateways + 1)) :
          \E content \in (IF dry.via = "cache" \/ fails > NumGateways
                           THEN {1} ELSE Blobs) :
          \E probe \in ProbeChoices(HasProbe(dry.net)) :
          \E written \in (IF dry.via = "cache" THEN {<<>>} ELSE WrittenChoices) :
          \E late \in (IF fails = 0 THEN {FALSE} ELSE BOOLEAN) :
          \E r \in {downloadFromFilecoin(st, now, cid, skipCache, fails, content,
                                         probe, f)} :
               /\ st' = r.st
               /\ nCids' = Max(nCids, cid)
               /\ call' = [NoCall EXCEPT !.op = "download", !.cid = cid,
                             !.flag = skipCache, !.ret = r.ret,
                             !.threw = r.threw, !.via = r.via, !.gw = r.gw,
                             !.net = r.net, !.at = now,
                             !.progress = onProgress(r, written, late),
                             !.evicted = Evicted(st, now, cid, r)]
  /\ nOps' = nOps + 1
  /\ UNCHANGED <<now, db, run>>

GetPreferredGateway(faults) ==
  /\ nOps < MaxOps
  /\ \E forceRefresh \in BOOLEAN, f \in faults :
       \E dry \in {getPreferredGateway(st, now, forceRefresh, NoProbe, f)} :
          \E probe \in ProbeChoices(HasProbe(dry.net)) :
          \E r \in {getPreferredGateway(st, now, forceRefresh, probe, f)} :
               /\ st' = r.st
               /\ call' = [NoCall EXCEPT !.op = "gateway", !.flag = forceRefresh,
                             !.ret = r.ret, !.gw = r.ret, !.net = r.net,
                             !.at = now]
  /\ nOps' = nOps + 1
  /\ UNCHANGED <<now, nCids, db, run>>

\* call.configured: both Infura credentials are set in the build that makes
\* the call.  checkCidStatus reads them only to add an Authorization header
\* to its pin/ls request; the request itself is sent either way.
CheckCidStatusAs(credentials, faults) ==
  /\ nOps < MaxOps
  /\ \E cid \in NextCids, skipCache \in BOOLEAN, f \in faults,
        configured \in credentials :
       \E dry \in {checkCidStatus(st, now, cid, skipCache, 0, NoProbe, f)} :
          \E fails \in (IF dry.via \in {"status", "cache"}
                         THEN {0} ELSE 0..(NumGateways + 2)) :
          \E probe \in ProbeChoices(HasProbe(dry.net)) :
          \E r \in {checkCidStatus(st, now, cid, skipCache, fails, probe, f)} :
               /\ st' = r.st
               /\ nCids' = Max(nCids, cid)
               /\ call' = [NoCall EXCEPT !.op = "status", !.cid = cid,
                             !.flag = skipCache, !.avail = r.avail,
                             !.via = r.via, !.net = r.net, !.at = now,
                             !.configured = configured]
  /\ nOps' = nOps + 1
  /\ UNCHANGED <<now, db, run>>

\* a status check in a build without Infura credentials
CheckCidStatus(faults) == CheckCidStatusAs({FALSE}, faults)

\* the index entries that s holds and s1 does not
Dropped(s, s1) ==
  {s.index[i] : i \in 1..Len(s.index)} \ {s1.index[i] : i \in 1..Len(s1.index)}

\* The function catches every error (its whole body is one try block), so
\* the call never throws; call.errored tells whether it logged one.
RemoveCachedFile(faults) ==
  /\ nOps < MaxOps
  /\ \E cid \in NextCids, f \in faults :
       \E s1 \in {removeCachedFile(st, cid, f)} :
          /\ st' = s1
          /\ nCids' = Max(nCids, cid)
          /\ call' = [NoCall EXCEPT !.op = "remove", !.cid = cid, !.at = now,
                        !.threw = FALSE,
                        !.errored = RemovalErrored(st, cid, f),
                        !.evicted = Dropped(st, s1)]
  /\ nOps' = nOps + 1
  /\ UNCHANGED <<now, db, run>>

\* The secondary answer is an input only of a call that asks for it.
UploadToFilecoin ==
  /\ nOps < MaxOps
  /\ \E configured \in BOOLEAN, fs \in FsFaults \cup {"none"}, primary \in AddAnswers :
       \E dry \in {uploadToFilecoin(st, configured, primary, AddFailed, fs)} :
          \E secondary \in (IF Len(dry.net) > 1 THEN AddAnswers ELSE {AddFailed}) :
          \E r \in {uploadToFilecoin(st, configured, primary, secondary, fs)} :
               /\ st' = r.st
               /\ call' = [NoCall EXCEPT !.op = "upload", !.ret = r.ret,
                             !.threw = r.threw, !.net = r.net, !.at = now,
                             !.configured = configured, !.primary = primary,
                             !.secondary = secondary, !.fs = fs,
                             !.staged = r.staged]
  /\ nOps' = nOps + 1
  /\ UNCHANGED <<now, nCids, db, run>>

DeleteFromFilecoin(faults) ==
  /\ nOps < MaxOps
  /\ \E cid \in NextCids, unpinned \in BOOLEAN, f \in faults :
       \E r \in {deleteFromFilecoin(st, cid, unpinned, f)} :
          /\ st' = r.st
          /\ nCids' = Max(nCids, cid)
          /\ call' = [NoCall EXCEPT !.op = "delete", !.cid = cid,
                        !.avail = r.ret, !.threw = r.threw, !.net = r.net,
                        !.at = now]
  /\ nOps' = nOps + 1
  /\ UNCHANGED <<now, db, run>>

\* findFastestGateway called on its own; call.probe is the speed test it met
FindFastestGateway(faults) ==
  /\ nOps < MaxOps
  /\ \E f \in faults :
       \E dry \in {findFastestGateway(st, now, NoProbe, f)} :
          \E probe \in (IF HasProbe(dry.net) THEN ValidProbes ELSE {NoProbe}) :
          \E r \in {findFastestGateway(st, now, probe, f)} :
               /\ st' = r.st
               /\ call' = [NoCall EXCEPT !.op = "probe", !.ret = r.ret,
                             !.gw = r.ret, !.net = r.net, !.at = now,
                             !.probe = probe, !.ranked = r.ranked]
  /\ nOps' = nOps + 1
  /\ UNCHANGED <<now, nCids, db, run>>

\* every AsyncStorage call resolves
Reliable == {"none"}

Next ==
  \/ Tick
  \/ DownloadFromFilecoin(Reliable)
  \/ GetPreferredGateway(Reliable)
  \/ CheckCidStatus(Reliable)
  \/ RemoveCachedFile(Reliable)

Spec == Init /\ [][Next]_vars

\* an AsyncStorage call may reject
Unreliable == StorageFaults \cup {"none"}

\* calls of a behaviour in which an AsyncStorage call may reject
MaxFaultOps == 2

NextFaults ==
  \/ Tick
  \/ nOps < MaxFaultOps /\ DownloadFromFilecoin(Unreliable)
  \/ nOps < MaxFaultOps /\ GetPreferredGateway(Unreliable)
  \/ nOps < MaxFaultOps /\ CheckCidStatus(Unreliable)
  \/ nOps < MaxFaultOps /\ RemoveCachedFile(Unreliable)

SpecFaults == Init /\ [][NextFaults]_vars

\* uploads and deletes, over the cache that downloads fill
MaxApiOps == 2

NextApi ==
  \/ nOps < MaxApiOps /\ DownloadFromFilecoin(Reliable)
  \/ nOps < MaxApiOps /\ UploadToFilecoin
  \/ nOps < MaxApiOps /\ DeleteFromFilecoin(Unreliable)

SpecApi == Init /\ [][NextApi]_vars

\* downloads that report their progress
MaxProgressOps == 2

NextProgress ==
  \/ nOps < MaxProgressOps /\ DownloadWithProgress(Reliable)
  \/ nOps < MaxProgressOps /\ RemoveCachedFile(Reliable)

SpecProgress == Init /\ [][NextProgress]_vars

\* calls over a cache that holds MAX_CACHE_ITEMS files
MaxFullOps == 2

NextFull ==
  \/ nOps < MaxFullOps /\ DownloadFromFilecoin(Reliable)
  \/ nOps < MaxFullOps /\ RemoveCachedFile(Reliable)

SpecFull == InitFull /\ [][NextFull]_vars

\* the same calls over a cache whose files are older than MAX_CACHE_AGE
SpecStale == InitStale /\ [][NextFull]_vars

\* removals in which an AsyncStorage call may reject, over a cache filled
\* and checked by calls whose AsyncStorage calls all resolve
MaxRemoveOps == 3

NextRemove ==
  \/ nOps < MaxRemoveOps /\ DownloadFromFilecoin(Reliable)
  \/ nOps < MaxRemoveOps /\ CheckCidStatus(Reliable)
  \/ nOps < MaxRemoveOps /\ RemoveCachedFile(Unreliable)

SpecRemove == Init /\ [][NextRemove]_vars

\* status checks in builds with and without Infura credentials
MaxCredsOps == 2

NextCreds ==
  \/ Tick
  \/ nOps < MaxCredsOps /\ DownloadFromFilecoin(Reliable)
  \/ nOps < MaxCredsOps /\ CheckCidStatusAs(BOOLEAN, Reliable)

SpecCreds == Init /\ [][NextCreds]_vars

\* the answers to an add request that name the content under Hash, or not
\* at all
HashAnswers == {a \in AddAnswers : a.hash = 0 /\ a.cid = 0}

\* uploadFile; call.cid is the cid the content upload returned (0: none),
\* call.file the id of the row returned
UploadFile ==
  /\ \E userId \in Users, encrypted, configured \in BOOLEAN,
        fs \in {"none", "deleteAsync"}, primary \in HashAnswers :
       \E dry \in {uploadToFilecoin(st, configured, primary, AddFailed, fs)} :
          \E secondary \in (IF encrypted /\ Len(dry.net) > 1
                             THEN HashAnswers ELSE {AddFailed}) :
          \E up \in {uploadToFilecoin(st, configured, primary, secondary, fs)} :
          \E rpcOk, insertOk, auditOk \in
                (IF encrypted /\ ~up.threw THEN BOOLEAN ELSE {TRUE}) :
          \E r \in {uploadFile(st, db, userId, encrypted, up,
                                rpcOk, insertOk, auditOk)} :
               /\ st' = r.st
               /\ db' = r.db
               /\ call' = [NoCall EXCEPT !.op = "uploadFile", !.cid = r.cid,
                             !.threw = r.threw, !.net = r.net, !.at = now,
                             !.user = userId, !.file = r.row]
  /\ nOps' = nOps + 1
  /\ UNCHANGED <<now, nCids, run>>

\* deleteFile; call.user is the signed-in user (0: none), call.file the id
\* asked for
DeleteFile ==
  /\ \E fileId \in 1..db.nextId, user \in {0} \cup Users,
        fetched, unpinned, rpcOk, auditOk, deleteOk \in BOOLEAN :
       \E r \in {deleteFile(st, db, fileId, fetched, user, unpinned, "none",
                             rpcOk, auditOk, deleteOk)} :
          /\ st' = r.st
          /\ db' = r.db
          /\ nCids' = Max(nCids, r.cid)
          /\ call' = [NoCall EXCEPT !.op = "deleteFile", !.cid = r.cid,
                        !.threw = r.threw, !.net = r.net, !.at = now,
                        !.user = user, !.file = fileId]
  /\ nOps' = nOps + 1
  /\ UNCHANGED <<now, run>>

\* files uploaded and deleted, over the cache that downloads fill
MaxFileOps == 3

NextFiles ==
  \/ nOps < MaxFileOps /\ DownloadFromFilecoin(Reliable)
  \/ nOps < MaxFileOps /\ UploadFile
  \/ nOps < MaxFileOps /\ DeleteFile

SpecFiles == Init /\ [][NextFiles]_vars

(***************************************************************************)
(* Two concurrent downloads, one step per await that reads or writes a     *)
(* record other calls write.  Both calls miss the cache and both get their *)
(* file; storage is reliable.  The awaits inside getPreferredGateway and   *)
(* inside cleanCache are taken together.                                   *)
(***************************************************************************)
\* the files served: one byte, and 30 MB
RaceBlobs == {2, 3}

\* await AsyncStorage.getItem(cacheKey) finds nothing
CacheMissed(p) ==
  /\ run[p].pc = "idle"
  /\ \E cid \in Cids :
       /\ ~Truthy(st.blob[cid])
       /\ run' = [run EXCEPT ![p].pc = "download", ![p].cid = cid]
  /\ UNCHANGED <<st, now, call, nOps, nCids, db>>

\* getPreferredGateway, then the downloads up to the one that delivers
Downloaded(p) ==
  /\ run[p].pc = "download"
  /\ \E dry \in {getPreferredGateway(st, now, FALSE, NoProbe, "none")} :
       \E probe \in ProbeChoices(HasProbe(dry.net)) :
       \E base64Data \in RaceBlobs, gateway \in {0} \cup IPFS_GATEWAYS :
          /\ st' = getPreferredGateway(st, now, FALSE, probe, "none").st
          /\ run' = [run EXCEPT ![p].pc = "setBlob", ![p].gateway = gateway,
                                ![p].base64Data = base64Data]
  /\ UNCHANGED <<now, call, nOps, nCids, db>>

\* await AsyncStorage.setItem(cacheKey, base64Data)
BlobStored(p) ==
  /\ run[p].pc = "setBlob"
  /\ st' = [st EXCEPT !.blob[run[p].cid] = run[p].base64Data]
  /\ run' = [run EXCEPT ![p].pc = "getIndex"]
  /\ UNCHANGED <<now, call, nOps, nCids, db>>

\* trackCachedFile: await AsyncStorage.getItem(CACHE_INDEX)
IndexRead(p) ==
  /\ run[p].pc = "getIndex"
  /\ run' = [run EXCEPT ![p].pc = "setIndex", ![p].cacheIndex = st.index]
  /\ UNCHANGED <<st, now, call, nOps, nCids, db>>

\* trackCachedFile: cacheIndex[cid] = {size, timestamp} and the setItem
IndexWritten(p) ==
  /\ run[p].pc = "setIndex"
  /\ st' = [st EXCEPT !.index = IndexPut(run[p].cacheIndex, run[p].cid,
                                         FileSize(run[p].base64Data), now)]
  /\ run' = [run EXCEPT ![p].pc = "getSize"]
  /\ UNCHANGED <<now, call, nOps, nCids, db>>

\* trackCachedFile: await AsyncStorage.getItem(CACHE_SIZE), += size
SizeRead(p) ==
  /\ run[p].pc = "getSize"
  /\ run' = [run EXCEPT ![p].pc = "setSize",
                        ![p].totalCacheSize = st.size + FileSize(run[p].base64Data)]
  /\ UNCHANGED <<st, now, call, nOps, nCids, db>>

\* trackCachedFile: the setItem of CACHE_SIZE
SizeWritten(p) ==
  /\ run[p].pc = "setSize"
  /\ st' = [st EXCEPT !.size = run[p].totalCacheSize]
  /\ run' = [run EXCEPT ![p].pc = IF run[p].totalCacheSize > MAX_CACHE_SIZE
                                  THEN "cleanCache" ELSE "tracked"]
  /\ UNCHANGED <<now, call, nOps, nCids, db>>

\* trackCachedFile: await cleanCache()
CacheCleaned(p) ==
  /\ run[p].pc = "cleanCache"
  /\ st' = cleanCache(st, now, "none")
  /\ run' = [run EXCEPT ![p].pc = "tracked"]
  /\ UNCHANGED <<now, call, nOps, nCids, db>>

\* the setItem of PREFERRED_GATEWAY in the fallback loop, and the return
Returned(p) ==
  /\ run[p].pc = "tracked"
  /\ st' = IF run[p].gateway = 0 THEN st
           ELSE [st EXCEPT !.pref = run[p].gateway]
  /\ run' = [run EXCEPT ![p].pc = "done"]
  /\ UNCHANGED <<now, call, nOps, nCids, db>>

NextRace ==
  \/ \E p \in Fetchers : CacheMissed(p)
  \/ \E p \in Fetchers : Downloaded(p)
  \/ \E p \in Fetchers : BlobStored(p)
  \/ \E p \in Fetchers : IndexRead(p)
  \/ \E p \in Fetchers : IndexWritten(p)
  \/ \E p \in Fetchers : SizeRead(p)
  \/ \E p \in Fetchers : SizeWritten(p)
  \/ \E p \in Fetchers : CacheCleaned(p)
  \/ \E p \in Fetchers : Returned(p)

SpecRace == Init /\ [][NextRace]_vars

\* downloads of files of tens of megabytes
LargeBlobs == {3, 4}

MaxLargeOps == 2

NextLarge ==
  \/ Tick
  \/ nOps < MaxLargeOps /\ DownloadOf(LargeBlobs, Reliable)

SpecLarge == Init /\ [][NextLarge]_vars

\* the speed test alone
NextProbe ==
  \/ Tick
  \/ FindFastestGateway(Reliable)

SpecProbe == Init /\ [][NextProbe]_vars


(***************************************************************************)
(* Vocabulary of the properties.                                           *)
(***************************************************************************)
\* the step is a call of op: call' describes it, st and now are the state
\* it started in
Called(op) == nOps' = nOps + 1 /\ call'.op = op

Downloads(net) == {i \in 1..Len(net) : net[i].kind = "download"}

\* the speed-test result persisted in s was measured less than 1 hour before t
FreshSpeedTest(s, t) == s.speed.present /\ t - s.speed.timestamp < OneHour

EntriesOf(index, cid) == {i \in 1..Len(index) : index[i].cid = cid}

(***************************************************************************)
(* C1.  For every cid whose blob is in the cache store, a download with    *)
(* skipCache = false returns exactly the stored blob and sends no request  *)
(* (no speed test, no download).                                           *)
(***************************************************************************)
C1_CacheHitNoNetwork ==
  [][(Called("download") /\ ~call'.flag /\ st.blob[call'.cid] # 0)
       => (/\ ~call'.threw
           /\ call'.ret = st.blob[call'.cid]
           /\ call'.net = <<>>)]_vars

\* only the download from the last gateway of the list succeeded
C2_OnlyLastGatewayWorks ==
  /\ call.op = "download"
  /\ \E i \in Downloads(call.net) : call.net[i].gw = NumGateways /\ call.net[i].ok
  /\ \A i \in Downloads(call.net) : call.net[i].ok <=> call.net[i].gw = NumGateways

(***************************************************************************)
(* C2.  When every download from the gateways before the last one of the   *)
(* list fails and the download from the last one succeeds, the call        *)
(* returns what the last gateway delivered and the last gateway is the     *)
(* persisted preferred gateway.                                            *)
(***************************************************************************)
C2_LastGatewayPromoted ==
  C2_OnlyLastGatewayWorks
    => /\ ~call.threw
       /\ \E i \in Downloads(call.net) :
            /\ call.net[i].gw = NumGateways
            /\ call.ret = call.net[i].data
       /\ st.pref = NumGateways

C2_Witness == C2_OnlyLastGatewayWorks /\ call.via = "fallback"

(***************************************************************************)
(* C3.  A download call fails only after a download has been attempted on  *)
(* every gateway of the list in that call, and every attempt failed.       *)
(***************************************************************************)
C3_FailsOnlyWhenExhausted ==
  (call.op = "download" /\ call.threw)
    => /\ \A g \in IPFS_GATEWAYS :
            \E i \in Downloads(call.net) : call.net[i].gw = g /\ ~call.net[i].ok
       /\ \A i \in Downloads(call.net) : ~call.net[i].ok

C3_Witness == call.op = "download" /\ call.threw /\ Len(call.net) > NumGateways

(***************************************************************************)
(* C4.  A download call in which every gateway fails leaves the blob       *)
(* store, the cache index and the running total size as they were.         *)
(***************************************************************************)
C4_FailureWritesNoCache ==
  [][(Called("download") /\ call'.threw)
       => (/\ st'.blob = st.blob
           /\ st'.index = st.index
           /\ st'.size = st.size)]_vars

C4_Witness ==
  /\ call.op = "download" /\ call.threw /\ call.flag
  /\ st.blob[call.cid] # 0
  /\ st.index # <<>>

C6_SecondCheckFromCache ==
  [][(/\ call.op = "status" /\ ~call.flag /\ call.via # "status"
      /\ Called("status") /\ ~call'.flag /\ call'.cid = call.cid
      /\ now - call.at < OneHour)
       => (call'.avail = call.avail /\ call'.net = <<>>)]_vars

C6_Witness ==
  /\ call.op = "status" /\ ~call.flag /\ call.via = "status" /\ ~call.avail
  /\ call.net = <<>>
  /\ st.status[call.cid].timestamp < call.at

(***************************************************************************)
(* C7.  Whenever a (non-empty) blob is cached for a cid, a status check of *)
(* the cid with skipCache = false answers true.                            *)
(***************************************************************************)
C7_CachedImpliesAvailable ==
  (call.op = "status" /\ ~call.flag /\ Truthy(st.blob[call.cid])) => call.avail

C9_ForceRefreshProbes ==
  (call.op = "gateway" /\ call.flag) => HasProbe(call.net)

(***************************************************************************)
(* C10.  After a download succeeded in the fallback loop on gateway g, g   *)
(* is the persisted preferred gateway, and the next                        *)
(* getPreferredGateway(false) returns g without a speed test, however old  *)
(* the last speed test is.                                                 *)
(***************************************************************************)
C10_FallbackWinnerIsPreferred ==
  [][/\ (Called("download") /\ call'.via = "fallback") => st'.pref = call'.gw
     /\ (/\ call.op = "download" /\ call.via = "fallback"
         /\ Called("gateway") /\ ~call'.flag)
          => (call'.ret = call.gw /\ ~HasProbe(call'.net))]_vars

\* the fallback loop succeeded on a gateway that the persisted speed test
\* does not rank first
C10_Witness ==
  /\ call.op = "download" /\ call.via = "fallback"
  /\ st.speed.present /\ st.speed.fastestGateway # call.gw
  /\ st.pref = call.gw

(***************************************************************************)
(* C11.  When findFastestGateway runs the speed test, it ranks exactly the  *)
(* gateways that answered in time, each with its measured latency, in      *)
(* ascending order of latency, and returns the first of the ranking; a     *)
(* gateway that did not answer is left out and the call still returns.     *)
(***************************************************************************)
Responsive(probe) == {g \in IPFS_GATEWAYS : probe.lat[g] < ProbeTimeout}

C11_ProbeRanking ==
  (call.op = "probe" /\ HasProbe(call.net))
    => /\ Len(call.ranked) = Cardinality(Responsive(call.probe))
       /\ {call.ranked[i].gateway : i \in 1..Len(call.ranked)}
            = Responsive(call.probe)
       /\ \A i \in 1..Len(call.ranked) :
            call.ranked[i].responseTime = call.probe.lat[call.ranked[i].gateway]
       /\ \A i, j \in 1..Len(call.ranked) :
            i < j => call.ranked[i].responseTime <= call.ranked[j].responseTime
       /\ call.ranked # <<>> => call.ret = call.ranked[1].gateway
       /\ call.ret \in IPFS_GATEWAYS

\* latencies A: 300, B: 50, C: timeout give B first, A second, C left out
C11_Witness ==
  /\ call.op = "probe"
  /\ call.probe.lat = (1 :> 300) @@ (2 :> 50) @@ (3 :> ProbeTimeout) @@
                      [g \in IPFS_GATEWAYS |-> ProbeTimeout]
  /\ call.ranked = <<[gateway |-> 2, responseTime |-> 50],
                     [gateway |-> 1, responseTime |-> 300]>>
  /\ call.ret = 2

(***************************************************************************)
(* C12.  getPreferredGateway returns one of the configured gateways on     *)
(* every call, whichever AsyncStorage call rejects and whatever the speed  *)
(* test meets (ret = 0 would be a call that gave no gateway); when the     *)
(* speed test ran and no gateway responded, it returns the first           *)
(* configured gateway.                                                     *)
(***************************************************************************)
NoneAnswered(net) == \E i \in 1..Len(net) : net[i].kind = "probe" /\ ~net[i].ok

C12_AlwaysAGateway ==
  call.op = "gateway"
    => /\ call.ret \in IPFS_GATEWAYS
       /\ ~call.threw
       /\ NoneAnswered(call.net) => call.ret = IPFS_GATEWAY_URL

\* a stored pointer could not be read, and the call fell back to the default
C12_Witness ==
  /\ call.op = "gateway" /\ ~call.flag
  /\ st.pref \notin {0, call.ret}
  /\ call.ret = IPFS_GATEWAY_URL

(***************************************************************************)
(* Vocabulary of the upload properties.                                    *)
(***************************************************************************)
InfuraTried(net) == \E i \in 1..Len(net) : net[i].kind = "infura"

\* the identifiers an answer holds
Identifiers(data) == {data.Hash, data.hash, data.cid} \ {0}

\* the request was answered and the answer names the content
Named(data) == data.ok /\ Identifiers(data) # {}

(***************************************************************************)
(* C13.  An upload sends the Infura request only when the credentials are  *)
(* configured and the primary request has failed (no 2xx answer, or an     *)
(* answer without identifier); without credentials, a failed primary       *)
(* request makes the upload fail with no Infura request.                   *)
(***************************************************************************)
C13_SecondaryOnlyAfterFailure ==
  call.op = "upload"
    => /\ InfuraTried(call.net) => (call.configured /\ ~Named(call.primary))
       /\ (~call.configured /\ Len(call.net) > 0 /\ ~call.primary.ok)
            => (call.threw /\ ~InfuraTried(call.net))

(***************************************************************************)
(* C14.  An upload that returns, returns an identifier held by the answer  *)
(* of its last add request (the one under Hash when there is one); an      *)
(* upload none of whose requests was answered with an identifier fails.    *)
(***************************************************************************)
LastAnswer(c) == IF InfuraTried(c.net) THEN c.secondary ELSE c.primary

C15_UploadLeavesStore == [][Called("upload") => st' = st]_vars

\* an upload returned a cid while the cache held a file
C15_Witness ==
  /\ call.op = "upload" /\ ~call.threw
  /\ st.index # <<>> /\ st.pref # 0

(***************************************************************************)
(* C16.  When an upload returns or throws, the temporary file it wrote is  *)
(* gone.                                                                   *)
(***************************************************************************)
C16_TempFileRemoved == call.op = "upload" => ~call.staged

(***************************************************************************)
(* C18.  deleteFromFilecoin returns true and does not throw, whether the   *)
(* unpin request fails, the removal from the cache fails, or both succeed. *)
(***************************************************************************)
C18_DeleteReportsSuccess == call.op = "delete" => (call.avail /\ ~call.threw)

\* the unpin request failed and the cached blob could not be removed
C18_Witness ==
  /\ call.op = "delete"
  /\ ~call.net[1].ok
  /\ st.blob[call.cid] # 0

(***************************************************************************)
(* C17.  The values one download call passes to onProgress never          *)
(* decrease from one report to the next.                                   *)
(***************************************************************************)
C17_ProgressNeverDecreases ==
  call.op = "download"
    => \A i, j \in 1..Len(call.progress) :
         i < j => call.progress[i] <= call.progress[j]

(***************************************************************************)
(* C19.  A rejected AsyncStorage call changes neither the outcome of a     *)
(* download (it returns what the first successful download delivered, and  *)
(* throws only when every download failed) nor the answer of a status      *)
(* check that went to the network (true exactly when one of its requests   *)
(* succeeded).                                                             *)
(***************************************************************************)
Checks(net) == {i \in 1..Len(net) : net[i].kind \in {"head", "pinls"}}

C19_CacheFailuresHarmless ==
  /\ (call.op = "download" /\ call.via # "cache")
       => /\ call.threw <=> \A i \in Downloads(call.net) : ~call.net[i].ok
          /\ \A i \in Downloads(call.net) :
               call.net[i].ok => call.ret = call.net[i].data
  /\ (call.op = "status" /\ Checks(call.net) # {})
       => (call.avail <=> \E i \in Checks(call.net) : call.net[i].ok)

(***************************************************************************)
(* C20.  Once a call has returned, the cache index holds at most           *)
(* MAX_CACHE_ITEMS entries.                                                *)
(***************************************************************************)
C20_CountLimit == Len(st.index) <= MAX_CACHE_ITEMS

(***************************************************************************)
(* Vocabulary of the cache-accounting properties.                          *)
(***************************************************************************)
\* the sum of the sizes of the index entries
RECURSIVE SumSizes(_)
SumSizes(index) ==
  IF index = <<>> THEN 0
  ELSE index[Len(index)].size + SumSizes(SubSeq(index, 1, Len(index) - 1))

\* the step is a download that stored what it fetched: trackCachedFile ran
Inserted == Called("download") /\ call'.via \in {"preferred", "fallback"}

\* the running total trackCachedFile computes in that step
InsertTotal == st.size + FileSize(call'.ret)

(***************************************************************************)
(* C22.  In every state, the sizes of the index entries add up to the      *)
(* persisted running total, re-inserts of an indexed cid included.         *)
(***************************************************************************)
C22_SizeMatchesIndex == SumSizes(st.index) = st.size

(***************************************************************************)
(* C21.  When the running total an insert computes exceeds MAX_CACHE_SIZE, *)
(* the cleanup that insert triggers leaves a running total of at most 80%  *)
(* of MAX_CACHE_SIZE.                                                      *)
(***************************************************************************)
C21_SizeRestored ==
  [][(Inserted /\ InsertTotal > MAX_CACHE_SIZE)
       => 5 * st'.size <= 4 * MAX_CACHE_SIZE]_vars

(***************************************************************************)
(* C23.  In every state, a cid has a blob in the blob store exactly when   *)
(* it has an index entry, and no cid has more than one index entry,        *)
(* whichever AsyncStorage call rejected in the calls made so far.          *)
(***************************************************************************)
C23_BlobsMatchIndex ==
  \A c \in DOMAIN st.blob :
     /\ Cardinality(EntriesOf(st.index, c)) <= 1
     /\ st.blob[c] # 0 <=> EntriesOf(st.index, c) # {}

(***************************************************************************)
(* C24.  The entries a cleanup removes are the oldest ones: no entry that  *)
(* the index held at the start of the cleanup and still holds after it is  *)
(* older than a removed one, and the entries kept stay as they were.       *)
(***************************************************************************)
C24_OldestFirst ==
  [][(Inserted /\ InsertTotal > MAX_CACHE_SIZE)
       => LET start == IndexPut(st.index, call'.cid, FileSize(call'.ret), now)
              kept == {i \in 1..Len(start) : IndexHas(st'.index, start[i].cid)}
          IN /\ \A i \in (1..Len(start)) \ kept : \A j \in kept :
                   start[i].timestamp <= start[j].timestamp
             /\ st'.index = SelectSeq(start, LAMBDA e : IndexHas(st'.index, e.cid))]_vars

\* a cleanup removed an entry and kept a newer one
C24_Witness ==
  /\ call.op = "download"
  /\ \E e \in call.evicted : \E i \in 1..Len(st.index) :
       e.timestamp < st.index[i].timestamp

(***************************************************************************)
(* C25.  removeCachedFile never throws, whichever of its AsyncStorage      *)
(* calls rejects.  When none rejects and the cid is in the index, the call *)
(* removes the blob, the index entry and the status entry of the cid,      *)
(* takes exactly the size of the entry off the running total, and leaves   *)
(* the blobs and index entries of the other cids as they were.             *)
(***************************************************************************)
C25_RemoveEffects ==
  [][Called("remove")
       => /\ ~call'.threw
          /\ (IndexHas(st.index, call'.cid) /\ ~call'.errored)
               => /\ st'.blob[call'.cid] = 0
                  /\ st'.status[call'.cid] = NoStatus
                  /\ ~IndexHas(st'.index, call'.cid)
                  /\ st'.size = st.size - IndexSize(st.index, call'.cid)
                  /\ \A c \in DOMAIN st.blob \ {call'.cid} :
                       st'.blob[c] = st.blob[c]
                  /\ st'.index
                       = SelectSeq(st.index, LAMBDA e : e.cid # call'.cid)]_vars

\* a tracked file was removed, without error, from a cache that holds another
C25_Witness ==
  /\ call.op = "remove" /\ ~call.errored
  /\ \E e \in call.evicted : e.cid = call.cid /\ e.size > 0
  /\ st.index # <<>>
  /\ st.blob[call.cid] = 0

(***************************************************************************)
(* C26.  When an insert has triggered a cleanup, the index holds no entry  *)
(* older than MAX_CACHE_AGE once the cleanup is over, whatever size or     *)
(* count pressure the cleanup handled.                                     *)
(***************************************************************************)
C26_NoStaleEntries ==
  [][(Inserted /\ InsertTotal > MAX_CACHE_SIZE)
       => \A i \in 1..Len(st'.index) :
            st'.index[i].timestamp >= now - MAX_CACHE_AGE]_vars

(***************************************************************************)
(* Vocabulary of the status-check properties.                              *)
(***************************************************************************)
\* the HEAD and pin/ls requests of a call, in the order they were sent
Requests(net) == SelectSeq(net, LAMBDA e : e.kind \in {"head", "pinls"})

\* a status of the cid less than one hour old is persisted in s at time t
FreshStatus(s, cid, t) ==
  s.status[cid].present /\ t - s.status[cid].timestamp < OneHour

C28_PinQueryNeedsCredentials ==
  (call.op = "status" /\ ~call.configured)
    => /\ \A i \in 1..Len(call.net) : call.net[i].kind # "pinls"
       /\ Len(Requests(call.net)) >= 2 => Requests(call.net)[2].kind = "head"

(***************************************************************************)
(* C29.  When a status check has answered from the cached blob, the        *)
(* preferred gateway, the pin query or the gateway sweep (true, or false   *)
(* after every gateway failed), the persisted status of the cid holds that *)
(* answer and the time of the check.                                       *)
(***************************************************************************)
C29_AnswerIsPersisted ==
  (call.op = "status" /\ call.via \in {"cache", "preferred", "pin", "gateways"})
    => st.status[call.cid]
         = [present |-> TRUE, status |-> call.avail, timestamp |-> call.at]

\* every request of a check made after StartTime failed, and the negative
\* answer is persisted with the time of that check
C29_Witness ==
  /\ call.op = "status" /\ call.via = "gateways" /\ ~call.avail
  /\ call.at > StartTime
  /\ st.status[call.cid] = [present |-> TRUE, status |-> FALSE, timestamp |-> call.at]

(***************************************************************************)
(* C30.  The downloads a call attempts after the one from the preferred    *)
(* gateway go to the gateways of the list in configured order, whatever    *)
(* the speed test ranked first, and each attempt is made only after every  *)
(* earlier attempt of the call has failed.                                 *)
(***************************************************************************)
C30_FallbackInListOrder ==
  call.op = "download"
    => LET attempts == SelectSeq(call.net, LAMBDA e : e.kind = "download")
       IN /\ Len(attempts) <= NumGateways + 1
          /\ \A k \in 2..Len(attempts) : attempts[k].gw = k - 1
          /\ \A k \in 1..(Len(attempts) - 1) : ~attempts[k].ok

\* the speed test ranked the last gateway first; it failed, and the loop
\* went to the first and then the second gateway of the list
C30_Witness ==
  /\ call.op = "download" /\ call.via = "fallback" /\ call.gw = 2
  /\ st.speed.present /\ st.speed.fastestGateway = NumGateways
  /\ Len(call.net) >= 3
  /\ call.net[Len(call.net) - 2].gw = NumGateways

(***************************************************************************)
(* Vocabulary of the speed-test properties.                                *)
(***************************************************************************)
\* the call ran the speed test
Probed(c) == c.op = "probe" /\ HasProbe(c.net)

\* the place of gateway g in the order in which the requests settled
Settled(probe, g) == CHOOSE i \in 1..NumGateways : probe.order[i] = g

(***************************************************************************)
(* C31, as stated.  The gateway a speed test selects depends only on the   *)
(* latencies it measured: two speed tests that measure the same latencies  *)
(* select the same gateway, in whatever order their requests settled.      *)
(***************************************************************************)
C31_AsStated ==
  [][(/\ Probed(call) /\ Called("probe") /\ Probed(call')
      /\ call'.probe.lat = call.probe.lat)
       => call'.ret = call.ret]_vars

(***************************************************************************)
(* C31, amended.  A speed test sends one request to each configured        *)
(* gateway and ranks only when all have settled: every gateway that        *)
(* answered is ranked, and the gateway selected is one that answered with  *)
(* the least latency measured; among gateways measured equally fast it is  *)
(* the one whose request settled first.  With no answer at all the first   *)
(* configured gateway is selected.                                         *)
(***************************************************************************)
C31_RankedAfterAllSettled ==
  Probed(call)
    => LET probe == call.probe
       IN /\ DOMAIN probe.lat = IPFS_GATEWAYS
          /\ {call.ranked[i].gateway : i \in 1..Len(call.ranked)} = Responsive(probe)
          /\ IF Responsive(probe) = {}
             THEN call.ret = IPFS_GATEWAY_URL
             ELSE /\ call.ret \in Responsive(probe)
                  /\ \A g \in Responsive(probe) :
                       \/ probe.lat[call.ret] < probe.lat[g]
                       \/ /\ probe.lat[call.ret] = probe.lat[g]
                          /\ Settled(probe, call.ret) <= Settled(probe, g)

\* two gateways were measured equally fast, and the one later in the list,
\* whose request settled first, was selected
C31_Witness ==
  /\ Probed(call)
  /\ \E g \in IPFS_GATEWAYS :
       /\ g < call.ret
       /\ call.probe.lat[g] = call.probe.lat[call.ret]
       /\ call.probe.lat[g] < ProbeTimeout

(***************************************************************************)
(* C33.  When getPreferredGateway(true) has run a speed test that some     *)
(* gateway answered and has returned its fastest gateway, a                *)
(* getPreferredGateway(false) that follows it at once returns the same     *)
(* gateway.                                                                *)
(***************************************************************************)
C33_RefreshSupersedesPointer ==
  [][(/\ call.op = "gateway" /\ call.flag
      /\ HasProbe(call.net) /\ ~NoneAnswered(call.net)
      /\ call.at = now
      /\ Called("gateway") /\ ~call'.flag)
       => call'.ret = call.ret]_vars

(***************************************************************************)
(* C34.  When a download of a cid that had no cached blob returns what it  *)
(* fetched, the blob and the index entry of the cid are in the cache,      *)
(* whatever the cleanup triggered by the insert removed.                   *)
(***************************************************************************)
C34_InsertedEntryKept ==
  [][(Inserted /\ st.blob[call'.cid] = 0)
       => /\ st'.blob[call'.cid] = call'.ret
          /\ IndexHas(st'.index, call'.cid)]_vars

(***************************************************************************)
(* C38.  An upload whose primary add request was answered with an          *)
(* identifier returns the identifier that answer names and sends no Infura *)
(* request, whichever file-system call of the rest of the call rejects.    *)
(***************************************************************************)
C38_PrimaryAnswerIsFinal ==
  (call.op = "upload" /\ Len(call.net) > 0 /\ Named(call.primary))
    => /\ ~call.threw
       /\ call.ret = Identifier(call.primary)
       /\ ~InfuraTried(call.net)

(***************************************************************************)
(* C36.  A download call makes at most NumGateways + 1 downloads, the ones *)
(* after the first to pairwise different gateways, and ends in one of two  *)
(* ways: it returns content (from the cache with no download at all, or    *)
(* what its last download delivered, every earlier one having failed), or  *)
(* it throws after NumGateways + 1 failed downloads.                       *)
(***************************************************************************)
Attempts(c) == SelectSeq(c.net, LAMBDA e : e.kind = "download")

C36_BoundedAttempts ==
  call.op = "download"
    => LET attempts == Attempts(call)
       IN /\ Len(attempts) <= NumGateways + 1
          /\ \A j, k \in 2..Len(attempts) :
               j < k => attempts[j].gw # attempts[k].gw
          /\ IF call.threw
             THEN /\ call.ret = 0
                  /\ Len(attempts) = NumGateways + 1
                  /\ \A k \in 1..Len(attempts) : ~attempts[k].ok
             ELSE /\ call.ret \in Blobs
                  /\ (call.via = "cache") = (attempts = <<>>)
                  /\ attempts # <<>>
                       => /\ attempts[Len(attempts)].ok
                          /\ attempts[Len(attempts)].data = call.ret

\* the last gateway of the list delivered, after the preferred gateway and
\* every other gateway of the list had failed
C36_Witness ==
  /\ call.op = "download" /\ ~call.threw
  /\ Len(Attempts(call)) = NumGateways + 1
  /\ call.gw = NumGateways

(***************************************************************************)
(* C39.  In every state the stored preferred-gateway pointer is unset or   *)
(* names a gateway of the configured list, and so does the gateway the     *)
(* stored speed test names; what getPreferredGateway returned last is a    *)
(* gateway of the list.                                                    *)
(***************************************************************************)
C39_PointerIsConfigured ==
  /\ st.pref \in {0} \cup IPFS_GATEWAYS
  /\ st.speed.present => st.speed.fastestGateway \in IPFS_GATEWAYS
  /\ call.op = "gateway" => call.ret \in IPFS_GATEWAYS

\* a download promoted a gateway other than the default one, and
\* getPreferredGateway returned it from the stored pointer
C39_Witness ==
  /\ call.op = "gateway" /\ ~call.flag /\ call.net = <<>>
  /\ st.pref # IPFS_GATEWAY_URL
  /\ call.ret = st.pref

(***************************************************************************)
(* C37.  A download call passes 100 to onProgress exactly when it returns  *)
(* content, and then once, as its last report; a call that throws never    *)
(* reports 100.                                                            *)
(***************************************************************************)
C37_HundredOnlyOnReturn ==
  call.op = "download"
    => LET reports == call.progress
       IN /\ (\E i \in 1..Len(reports) : reports[i] = 100) <=> ~call.threw
          /\ \A i \in 1..Len(reports) : reports[i] = 100 => i = Len(reports)

\* a gateway of the loop delivered after the earlier downloads had failed
\* with reports of their own, and the last report of the call is 100
C37_Witness ==
  /\ call.op = "download" /\ call.via = "fallback" /\ call.gw > 1
  /\ Len(call.progress) > 6
  /\ call.progress[Len(call.progress)] = 100

(***************************************************************************)
(* C35.  uploadFile adds a row to the files table only when its content    *)
(* upload returned a cid, and the ipfs_cid of the row is that cid; when    *)
(* the content upload fails, the call throws and the files table and the   *)
(* audit log are as they were.                                             *)
(***************************************************************************)
C35_RowAfterCid ==
  [][Called("uploadFile")
       => /\ \A row \in db'.files \ db.files :
               /\ call'.cid # 0
               /\ row.ipfs_cid = call'.cid
               /\ row.id = call'.file
          /\ call'.cid = 0
               => /\ call'.threw
                  /\ db'.files = db.files
                  /\ db'.audit = db.audit]_vars

\* a row and its audit entry were written for the second cid, after the
\* add request had been sent
C35_Witness ==
  /\ call.op = "uploadFile" /\ ~call.threw /\ call.cid = 2
  /\ \E row \in db.files : row.id = call.file /\ row.ipfs_cid = 2
  /\ AuditRow(call.user, call.file, "upload") \in db.audit
  /\ call.net # <<>>

(***************************************************************************)
(* C40.  deleteFile sends the unpin request, changes the cache store or    *)
(* removes a row of the files table only when the signed-in user is the    *)
(* owner of the file; called with no signed-in user or by another user, it *)
(* throws and leaves the cache store and the files table as they were.     *)
(***************************************************************************)
OwnerCalls(d, c) ==
  c.user # 0 /\ \E row \in d.files : row.id = c.file /\ row.user_id = c.user

C40_OnlyOwnerDeletes ==
  [][Called("deleteFile")
       => /\ (call'.net # <<>> \/ st' # st \/ db'.files # db.files)
               => OwnerCalls(db, call')
          /\ ~OwnerCalls(db, call')
               => /\ call'.threw
                  /\ call'.net = <<>>
                  /\ st' = st
                  /\ db'.files = db.files]_vars

\* a signed-in user who is not the owner asked to delete a file whose
\* content is in the cache: the row and the cached blob are still there
C40_Witness ==
  /\ call.op = "deleteFile" /\ call.threw /\ call.user # 0
  /\ \E row \in db.files :
       /\ row.id = call.file
       /\ row.user_id # call.user
       /\ st.blob[row.ipfs_cid] # 0

(***************************************************************************)
(* C32.  When two concurrent downloads that both missed the cache have     *)
(* both returned, the index has an entry for the cid of each and the       *)
(* stored total size is the sum of the sizes of the index entries,         *)
(* whatever the order of their steps.                                      *)
(***************************************************************************)
BothReturned == \A p \in Fetchers : run[p].pc = "done"

C32_ConcurrentInsertsKept ==
  BothReturned
    => /\ \A p \in Fetchers : IndexHas(st.index, run[p].cid)
       /\ st.size = SumSizes(st.index)

====
